---- MODULE Spec2Model ----
(***************************************************************************)
(* Model of block/src/raw_sync.rs: RawFileSync, the synchronous engine     *)
(* behind the AsyncIo interface (read_vectored, write_vectored, fsync,     *)
(* next_completed_request), with the sector alignment of its reads and the *)
(* read-modify-write of its writes.                                        *)
(*                                                                         *)
(* Every engine-level variable is a function over the engines; an engine   *)
(* that was never built has pc "absent".  Engine e works on the file       *)
(* file[fd[e]].  A submit call is a sequence of steps, one per OS call     *)
(* plus the queue push and the eventfd write, so that the states between   *)
(* two steps of a call are states of the model.                            *)
(*                                                                         *)
(* RawFileDiskSync::topology and the helpers round_down and round_up are   *)
(* modelled as functions, applied by steps of their own (disk, rounding).  *)
(*                                                                         *)
(* Byte offsets are 0-based as in the code; file[f] is a sequence, so the  *)
(* byte at offset o is file[f][o + 1].                                     *)
(***************************************************************************)
EXTENDS Integers, Sequences, FiniteSets, TLC

\* ----------------------------------------------------------------- bounds
\* The number of submit calls (read_vectored, write_vectored, fsync) made on
\* one engine in a run of SpecQueue.
MaxOps == 3
\* The largest byte offset a caller submits.
MaxOffset == 2
\* The largest total length of a caller's descriptor list.
MaxLen == 2
\* usize::MAX, the width of usize scaled down to 16 bits.
UsizeMax == 65535
\* round_down and round_up on their own are applied to the offsets within
\* MaxRound of 0 and of usize::MAX, and to the alignments up to MaxAlign.
MaxRound == 12
MaxAlign == 5

\* The values of logical_block_size an engine is built with (besides None).
BlockSizes == {2, 3}
\* The lengths of the backing file at the start.
InitFileLens == {0, 1, 3, 4, 6}
\* The request tags (user_data) callers use.
Tags == {1, 2}
\* What a freshly allocated boundary buffer may hold.
AllocFill == {0, 77}
\* The content of a caller's read buffer before the read.
Unwritten == -1

VARIABLES
    rounding,            \* the last use of round_down and round_up on their
                         \* own: the arguments and the two results
    disk,                \* RawFileDiskSync: its logical_block_size, and the
                         \* last topology query (the probe's answer, the
                         \* topology returned)
    file,                \* fd -> the bytes of the open file
    fd,                  \* RawFileSync.fd
    logical_block_size,  \* RawFileSync.logical_block_size: None or Some(L)
    eventfd,             \* RawFileSync.eventfd: the counter's value
    completion_list,     \* RawFileSync.completion_list
    pc,                  \* where the engine's caller is inside a call
    call,                \* the arguments of the current (or last) call
    iov,                 \* the locals of the call: boundary buffers, iovecs
    result,              \* the return value of the call's last OS call
    ret,                 \* what the last call returned: "Ok", the error of a
                         \* submit, "Polled" for next_completed_request
    log,                 \* the OS calls the current (or last) submit issued
    polled,              \* what the last next_completed_request returned
    ops,                 \* history: the submits, in order, with their outcome
    returned,            \* history: the entries next_completed_request returned
    pre                  \* history: file, queue and counter when the call began

vars == <<rounding, disk, file, fd, logical_block_size, eventfd,
          completion_list, pc, call, iov, result, ret, log, polled, ops,
          returned, pre>>

\* ------------------------------------------------------------ Option<T>
None == <<>>
Some(x) == <<x>>
IsSome(o) == o # <<>>
Unwrap(o) == o[1]

\* ------------------------------------------------------------ helpers
Min(a, b) == IF a < b THEN a ELSE b
Max(a, b) == IF a > b THEN a ELSE b

\* iovecs.iter().fold(0, |acc, e| acc + e.iov_len)
RECURSIVE total_length(_)
total_length(iovecs) ==
    IF iovecs = <<>> THEN 0
    ELSE Len(Head(iovecs)) + total_length(Tail(iovecs))

\* The bytes of a descriptor list, in the order a vectored call walks them.
RECURSIVE Flatten(_)
Flatten(iovecs) ==
    IF iovecs = <<>> THEN <<>>
    ELSE Head(iovecs) \o Flatten(Tail(iovecs))

\* The iov_len of each descriptor.
Lens(iovecs) == [k \in 1..Len(iovecs) |-> Len(iovecs[k])]

\* The number of bytes in the descriptors before descriptor k.
Before(iovecs, k) == total_length(SubSeq(iovecs, 1, k - 1))

\* round_down, with the offset left as it is.
round_down_unrounded(offset, alignment) == offset

\* RawFileSync::round_down
round_down(offset, alignment) == (offset \div alignment) * alignment
\* A sum or difference in usize, in a build without overflow checks.
wrapping(x) == x % (UsizeMax + 1)

\* round_up, one sector further: the offset is not brought back by
\* alignment - 1 before the division.
round_up_next(offset, alignment) ==
    (wrapping(offset + alignment) \div alignment) * alignment

\* RawFileSync::round_up.  offset + alignment - 1 is a sum in usize: when
\* it does not fit, a build with overflow checks panics (round_up_overflows)
\* and one without goes on with the wrapped sum.
round_up_overflows(offset, alignment) == offset + alignment - 1 > UsizeMax
round_up(offset, alignment) ==
    (wrapping(offset + alignment - 1) \div alignment) * alignment

\* `x as i32` of an integer x held in a wider type: the low 32 bits, read as
\* two's complement.  Computed on 16-bit halves; x may be negative, standing
\* for the wrapped value x mod 2^64, whose low 32 bits are those of x.
AsI32(x) ==
    LET lo == x % 65536
        hi == (x \div 65536) % 65536
    IN  IF hi >= 32768 THEN (hi - 65536) * 65536 + lo ELSE hi * 65536 + lo

\* crate::new_aligned_iovec(size, align): a buffer of `size` bytes; its
\* content is whatever the allocation holds.
new_aligned_iovec(size, fill) == [i \in 1..size |-> fill]

\* --------------------------------------------------------------- the OS
\* The number of bytes preadv transfers: the request, cut at end of file.
PreadvCount(f, iovecs, offset) ==
    Min(total_length(iovecs), Max(0, Len(f) - offset))

\* The descriptors after preadv has scattered n bytes of f, from offset on,
\* over them in order.
PreadvFill(f, iovecs, offset, n) ==
    [k \in 1..Len(iovecs) |->
        [j \in 1..Len(iovecs[k]) |->
            IF Before(iovecs, k) + j <= n
            THEN f[offset + Before(iovecs, k) + j]
            ELSE iovecs[k][j]]]

\* The file after `bytes` have been written at offset (a gap between the old
\* end of file and offset reads as zeros).
WriteAt(f, offset, bytes) ==
    IF bytes = <<>> THEN f
    ELSE [i \in 1..Max(Len(f), offset + Len(bytes)) |->
            IF i > offset /\ i <= offset + Len(bytes) THEN bytes[i - offset]
            ELSE IF i <= Len(f) THEN f[i]
            ELSE 0]

\* The file after pwritev has gathered the first n bytes of the descriptors
\* and written them at offset.
Pwritev(f, iovecs, offset, n) ==
    WriteAt(f, offset, SubSeq(Flatten(iovecs), 1, n))

\* The counts a successful pwritev can return for a request of `total` bytes:
\* all of it, or a part of it (the file cannot grow further).
PwritevCounts(total) == IF total = 0 THEN {0} ELSE 1..total

\* ------------------------------------------------------------- inputs
Offsets == 0..MaxOffset
\* The shapes of a descriptor list: the iov_len of each descriptor.
Shapes ==
    {s \in UNION {[1..n -> 1..MaxLen] : n \in 0..2} :
        total_length([k \in 1..Len(s) |-> [j \in 1..s[k] |-> 0]]) <= MaxLen}
\* The caller's buffers for a read, not yet written.
ReadBuffers(shape) == [k \in 1..Len(shape) |-> [j \in 1..shape[k] |-> Unwritten]]
\* The byte number g (from 0) of the data written under tag user_data.
DataByte(user_data, g) == 10 * user_data + g
\* The caller's buffers for a write under tag user_data.
WriteBuffers(shape, user_data) ==
    [k \in 1..Len(shape) |->
        [j \in 1..shape[k] |->
            DataByte(user_data, Before(ReadBuffers(shape), k) + j - 1)]]
\* The offsets and shapes of the submits in a run of SpecQueue.
QueueOffsets == {1}
QueueShapes == {<<1>>}
\* The file of length n before any write.
InitFile(n) == [i \in 1..n |-> 100 + i - 1]

NoCall == [fn |-> "none", offset |-> 0, iovecs |-> <<>>, user_data |-> None]
NoIov == [header |-> <<>>, footer |-> <<>>, header1 |-> <<>>, header2 |-> <<>>,
          footer1 |-> <<>>, footer2 |-> <<>>, iovecs |-> <<>>]

\* ---------------------------------------------------------------- Init
\* The engines a run can hold.
EngineIds == {1, 2}

\* RawFileSync::new for the engines of E, on the file RawFileDiskSync holds.
InitEngines(E, lens, sizes) ==
    /\ \E n \in lens : file = [f \in {1} |-> InitFile(n)]
    /\ rounding = None
    /\ fd = [e \in EngineIds |-> 1]
    /\ \E l \in {None} \cup {Some(b) : b \in sizes} :
          /\ disk = [logical_block_size |-> l, probe |-> None, topology |-> None]
          /\ logical_block_size = [e \in EngineIds |-> l]
    /\ eventfd = [e \in EngineIds |-> 0]
    /\ completion_list = [e \in EngineIds |-> <<>>]
    /\ pc = [e \in EngineIds |-> IF e \in E THEN "idle" ELSE "absent"]
    /\ call = [e \in EngineIds |-> NoCall]
    /\ iov = [e \in EngineIds |-> NoIov]
    /\ result = [e \in EngineIds |-> 0]
    /\ ret = [e \in EngineIds |-> "none"]
    /\ log = [e \in EngineIds |-> <<>>]
    /\ polled = [e \in EngineIds |-> None]
    /\ ops = [e \in EngineIds |-> <<>>]
    /\ returned = [e \in EngineIds |-> <<>>]
    /\ pre = [e \in EngineIds |-> [file |-> <<>>, completion_list |-> <<>>, eventfd |-> 0]]

Init == InitEngines({1}, InitFileLens, BlockSizes)

\* One engine on a file of 3 bytes, with no block size or a block size of 2.
InitQueue == InitEngines({1}, {3}, {2})

\* ------------------------------------------------------- shared pieces
TheFile(e) == file[fd[e]]
Aligned(e) == IsSome(logical_block_size[e])
L(e) == Unwrap(logical_block_size[e])

\* The history entry of a submit, and the mark of its outcome.
NewOp(user_data) == [user_data |-> user_data, status |-> "pending", entry |-> None]
MarkOp(o, e, status, entry) ==
    [o EXCEPT ![e] = [@ EXCEPT ![Len(@)] =
        [@ EXCEPT !.status = status, !.entry = entry]]]

Snapshot(e) == [file |-> TheFile(e), completion_list |-> completion_list[e],
                eventfd |-> eventfd[e]]

\* One OS call, as the log keeps it.
Sys(name, offset, iovecs, r) ==
    [sys |-> name, offset |-> offset, lens |-> Lens(iovecs), r |-> r]

\* completion_list.push_back(entry)
push_front(q, entry) == <<entry>> \o q
push_back(q, entry) == Append(q, entry)

\* The history with a new submit appended, not yet finished.
Started(e, user_data) == [ops EXCEPT ![e] = Append(@, NewOp(user_data))]

\* A submit call begins: what every submit sets up.
Begin(e, fn, offset, iovecs, user_data) ==
    /\ pc[e] = "idle"
    /\ call' = [call EXCEPT ![e] = [fn |-> fn, offset |-> offset,
                                    iovecs |-> iovecs, user_data |-> user_data]]
    /\ pre' = [pre EXCEPT ![e] = Snapshot(e)]

\* Fail, with the failed operation queued as a completion all the same.
Fail_queued(e, err, o) ==
    /\ pc' = [pc EXCEPT ![e] = "idle"]
    /\ iov' = [iov EXCEPT ![e] = NoIov]
    /\ ret' = [ret EXCEPT ![e] = err]
    /\ ops' = MarkOp(o, e, "failed", None)
    /\ completion_list' = [completion_list EXCEPT ![e] = Append(@, <<0, -1>>)]
    /\ UNCHANGED eventfd

\* A submit call returns Err(err) from history o: nothing is queued, and the
\* locals of the call are dropped.
Fail(e, err, o) ==
    /\ pc' = [pc EXCEPT ![e] = "idle"]
    /\ iov' = [iov EXCEPT ![e] = NoIov]
    /\ ret' = [ret EXCEPT ![e] = err]
    /\ ops' = MarkOp(o, e, "failed", None)
    /\ UNCHANGED <<completion_list, eventfd>>

\* The call goes on to step `next`.
Goto(e, next) == pc' = [pc EXCEPT ![e] = next]

\* `(result as usize - pad) as i32`: when result < pad the subtraction
\* panics in a build with overflow checks and wraps in usize in one without.
Underflows(res, pad) == res < pad
trimmed_result(res, pad) == AsI32(res - pad)

\* The thread panics inside a submit call.
Panic(e) ==
    /\ pc' = [pc EXCEPT ![e] = "panicked"]
    /\ ret' = [ret EXCEPT ![e] = "panic"]
    /\ ops' = MarkOp(ops, e, "panicked", None)
    /\ UNCHANGED <<completion_list, eventfd>>

\* self.completion_list.push_back((user_data, value)), on the way to `next`.
Push(e, value, next) ==
    LET entry == <<Unwrap(call[e].user_data), value>>
    IN  /\ completion_list' =
              [completion_list EXCEPT ![e] = push_back(@, entry)]
        /\ ops' = MarkOp(ops, e, "done", Some(entry))
        /\ Goto(e, next)
        /\ UNCHANGED <<eventfd, ret>>

\* Signal, with the write to the eventfd left out.
Signal_lost(e) ==
    /\ iov' = [iov EXCEPT ![e] = NoIov]
    /\ pc' = [pc EXCEPT ![e] = "idle"]
    /\ ret' = [ret EXCEPT ![e] = "Ok"]
    /\ UNCHANGED <<completion_list, ops, eventfd>>

\* self.eventfd.write(1).unwrap(); Ok(())
Signal(e) ==
    /\ eventfd' = [eventfd EXCEPT ![e] = @ + 1]
    /\ iov' = [iov EXCEPT ![e] = NoIov]
    /\ pc' = [pc EXCEPT ![e] = "idle"]
    /\ ret' = [ret EXCEPT ![e] = "Ok"]
    /\ UNCHANGED <<completion_list, ops>>

\* The call goes on to step `next`, its history being o.
Continue(e, next, o) ==
    /\ Goto(e, next)
    /\ ops' = o
    /\ ret' = [ret EXCEPT ![e] = "running"]
    /\ UNCHANGED <<completion_list, eventfd>>

\* -------------------------------------------------------- read_vectored
\* Lines 92-115: the arguments, and on the aligned path the padded iovecs.
ReadVectoredCall(e, offset, shape, user_data) ==
    LET bufs == ReadBuffers(shape) IN
    /\ Begin(e, "read_vectored", offset, bufs, Some(user_data))
    /\ log' = [log EXCEPT ![e] = <<>>]
    /\ IF Aligned(e)
       THEN LET offset_aligned_down == round_down(offset, L(e))
                end == offset + total_length(bufs)
                end_aligned_up == round_up(end, L(e))
            IN  \/ \E hf \in AllocFill, ff \in AllocFill :
                     LET header == new_aligned_iovec(offset - offset_aligned_down, hf)
                         footer == new_aligned_iovec(end_aligned_up - end, ff)
                     IN  /\ iov' = [iov EXCEPT ![e] =
                                [NoIov EXCEPT !.header = header,
                                              !.footer = footer,
                                              !.iovecs = <<header>> \o bufs \o <<footer>>]]
                         /\ Continue(e, "read_preadv", Started(e, Some(user_data)))
                \/ Fail(e, "AllocError", Started(e, Some(user_data)))
       ELSE /\ iov' = [iov EXCEPT ![e] = [NoIov EXCEPT !.iovecs = bufs]]
            /\ Continue(e, "read_preadv", Started(e, Some(user_data)))
    /\ UNCHANGED <<file, fd, logical_block_size, disk, rounding, result, polled, returned>>

\* The read issued at the caller's offset on the aligned path too.
ReadOffset_unaligned(e) == call[e].offset

\* The offset the read is issued at.
ReadOffset(e) ==
    IF Aligned(e) THEN round_down(call[e].offset, L(e)) ELSE call[e].offset

\* The caller's descriptors among the iovecs the read was issued over.
CallerPart(e, iovecs) ==
    IF Aligned(e) THEN SubSeq(iovecs, 2, Len(iovecs) - 1) ELSE iovecs

\* Lines 117-128 and 139-150: libc::preadv and the test of its result.
ReadVectoredPreadv(e) ==
    /\ pc[e] = "read_preadv"
    /\ \/ /\ result' = [result EXCEPT ![e] = -1]
          /\ log' = [log EXCEPT ![e] =
                        Append(@, Sys("preadv", ReadOffset(e), iov[e].iovecs, -1))]
          /\ Fail(e, "ReadVectored", ops)
          /\ UNCHANGED call
       \/ LET n == PreadvCount(TheFile(e), iov[e].iovecs, ReadOffset(e))
              filled == PreadvFill(TheFile(e), iov[e].iovecs, ReadOffset(e), n)
          IN  /\ result' = [result EXCEPT ![e] = n]
              /\ log' = [log EXCEPT ![e] =
                            Append(@, Sys("preadv", ReadOffset(e), iov[e].iovecs, n))]
              /\ iov' = [iov EXCEPT ![e].iovecs = filled]
              /\ call' = [call EXCEPT ![e].iovecs = CallerPart(e, filled)]
              /\ Continue(e, "read_push", ops)
    /\ UNCHANGED <<file, fd, logical_block_size, disk, rounding, polled, returned, pre>>

\* ReadPad, with the footer forgotten.
ReadPad_header(e) == Len(iov[e].header)

\* The result a read reports: lines 132 and 152.
ReadPad(e) == Len(iov[e].header) + Len(iov[e].footer)
read_result_untrimmed(e) == AsI32(result[e])
read_result(e) ==
    IF Aligned(e) THEN trimmed_result(result[e], ReadPad(e))
    ELSE AsI32(result[e])

\* Lines 130-133 and 152: the completion is queued.
ReadVectoredPush(e) ==
    /\ pc[e] = "read_push"
    /\ \/ Aligned(e) /\ Underflows(result[e], ReadPad(e)) /\ Panic(e)
       \/ Push(e, read_result(e), "read_signal")
    /\ UNCHANGED <<file, fd, logical_block_size, disk, rounding, call, iov, result, log,
                   polled, returned, pre>>

\* Lines 134-136 and 153-155: the eventfd is written and the call returns.
ReadVectoredSignal(e) ==
    /\ pc[e] = "read_signal"
    /\ Signal(e)
    /\ UNCHANGED <<file, fd, logical_block_size, disk, rounding, call, result, log, polled,
                   returned, pre>>

\* ------------------------------------------------------- write_vectored
\* Lines 158-183: the arguments, and on the aligned path header1, header2.
WriteVectoredCall(e, offset, shape, user_data) ==
    LET bufs == WriteBuffers(shape, user_data) IN
    /\ Begin(e, "write_vectored", offset, bufs, Some(user_data))
    /\ log' = [log EXCEPT ![e] = <<>>]
    /\ IF Aligned(e)
       THEN LET offset_aligned_down == round_down(offset, L(e))
                offset_aligned_up == round_up(offset, L(e))
            IN  \/ \E f1 \in AllocFill, f2 \in AllocFill :
                     /\ iov' = [iov EXCEPT ![e] =
                            [NoIov EXCEPT
                               !.header1 = new_aligned_iovec(offset - offset_aligned_down, f1),
                               !.header2 = new_aligned_iovec(offset_aligned_up - offset, f2)]]
                     /\ Continue(e, "write_header", Started(e, Some(user_data)))
                \/ Fail(e, "AllocError", Started(e, Some(user_data)))
       ELSE /\ iov' = [iov EXCEPT ![e] = [NoIov EXCEPT !.iovecs = bufs]]
            /\ Continue(e, "write_pwritev", Started(e, Some(user_data)))
    /\ UNCHANGED <<file, fd, logical_block_size, disk, rounding, result, polled, returned>>

\* Lines 216-219: the caller's iovecs padded with header1 and footer2.
write_iovecs_footer1(header1, iovecs, footer1, footer2) ==
    <<header1>> \o iovecs \o <<footer1>>
write_iovecs(header1, iovecs, footer1, footer2) ==
    <<header1>> \o iovecs \o <<footer2>>

\* The error a failed boundary read of write_vectored returns: lines 194, 213.
BoundaryReadError == "ReadVectored"

\* WriteVectoredHeaderRead, with the result of the read not tested.
WriteVectoredHeaderRead_unchecked(e) ==
    LET offset_aligned_down == round_down(call[e].offset, L(e))
        header_iovecs == <<iov[e].header1, iov[e].header2>>
    IN
    /\ pc[e] = "write_header"
    /\ \E failed \in BOOLEAN :
         LET n == IF failed THEN -1
                  ELSE PreadvCount(TheFile(e), header_iovecs, offset_aligned_down)
             filled == PreadvFill(TheFile(e), header_iovecs, offset_aligned_down, n)
         IN  /\ result' = [result EXCEPT ![e] = n]
             /\ log' = [log EXCEPT ![e] =
                    Append(@, Sys("preadv", offset_aligned_down, header_iovecs, n))]
             /\ iov' = [iov EXCEPT ![e].header1 = filled[1],
                                   ![e].header2 = filled[2]]
             /\ Continue(e, "write_footer", ops)
    /\ UNCHANGED <<file, fd, logical_block_size, disk, rounding, call, polled, returned, pre>>

\* Lines 184-195: preadv over [header1, header2] at offset_aligned_down.
WriteVectoredHeaderRead(e) ==
    LET offset_aligned_down == round_down(call[e].offset, L(e))
        header_iovecs == <<iov[e].header1, iov[e].header2>>
    IN
    /\ pc[e] = "write_header"
    /\ \/ /\ result' = [result EXCEPT ![e] = -1]
          /\ log' = [log EXCEPT ![e] =
                 Append(@, Sys("preadv", offset_aligned_down, header_iovecs, -1))]
          /\ Fail(e, BoundaryReadError, ops)
       \/ LET n == PreadvCount(TheFile(e), header_iovecs, offset_aligned_down)
              filled == PreadvFill(TheFile(e), header_iovecs, offset_aligned_down, n)
          IN  /\ result' = [result EXCEPT ![e] = n]
              /\ log' = [log EXCEPT ![e] =
                     Append(@, Sys("preadv", offset_aligned_down, header_iovecs, n))]
              /\ iov' = [iov EXCEPT ![e].header1 = filled[1],
                                    ![e].header2 = filled[2]]
              /\ Continue(e, "write_footer", ops)
    /\ UNCHANGED <<file, fd, logical_block_size, disk, rounding, call, polled, returned, pre>>

\* Lines 197-214: footer1, footer2, and preadv over them at end_aligned_down.
WriteVectoredFooterRead(e) ==
    LET end == call[e].offset + total_length(call[e].iovecs)
        end_aligned_down == round_down(end, L(e))
        end_aligned_up == round_up(end, L(e))
    IN
    /\ pc[e] = "write_footer"
    /\ \/ /\ Fail(e, "AllocError", ops)
          /\ UNCHANGED <<result, log>>
       \/ \E f1 \in AllocFill, f2 \in AllocFill :
            LET footer1 == new_aligned_iovec(end - end_aligned_down, f1)
                footer2 == new_aligned_iovec(end_aligned_up - end, f2)
                footer_iovecs == <<footer1, footer2>>
            IN  \/ /\ result' = [result EXCEPT ![e] = -1]
                   /\ log' = [log EXCEPT ![e] =
                          Append(@, Sys("preadv", end_aligned_down, footer_iovecs, -1))]
                   /\ Fail(e, BoundaryReadError, ops)
                \/ LET n == PreadvCount(TheFile(e), footer_iovecs, end_aligned_down)
                       filled == PreadvFill(TheFile(e), footer_iovecs,
                                            end_aligned_down, n)
                   IN  /\ result' = [result EXCEPT ![e] = n]
                       /\ log' = [log EXCEPT ![e] =
                              Append(@, Sys("preadv", end_aligned_down, footer_iovecs, n))]
                       /\ iov' = [iov EXCEPT
                              ![e].footer1 = filled[1],
                              ![e].footer2 = filled[2],
                              ![e].iovecs = write_iovecs(iov[e].header1, call[e].iovecs,
                                                         filled[1], filled[2])]
                       /\ Continue(e, "write_pwritev", ops)
    /\ UNCHANGED <<file, fd, logical_block_size, disk, rounding, call, polled, returned, pre>>

\* The write issued at the caller's offset on the aligned path too.
WriteOffset_caller(e) == call[e].offset

\* The offset the write is issued at.
WriteOffset(e) ==
    IF Aligned(e) THEN round_down(call[e].offset, L(e)) ELSE call[e].offset

\* WriteVectoredPwritev, with a failed write attempted again.
WriteVectoredPwritev_retry(e) ==
    /\ pc[e] = "write_pwritev"
    /\ \/ /\ result' = [result EXCEPT ![e] = -1]
          /\ log' = [log EXCEPT ![e] =
                 Append(@, Sys("pwritev", WriteOffset(e), iov[e].iovecs, -1))]
          /\ Continue(e, "write_pwritev", ops)
          /\ UNCHANGED <<file, iov>>
       \/ \E n \in PwritevCounts(total_length(iov[e].iovecs)) :
             /\ file' = [file EXCEPT ![fd[e]] =
                            Pwritev(@, iov[e].iovecs, WriteOffset(e), n)]
             /\ result' = [result EXCEPT ![e] = n]
             /\ log' = [log EXCEPT ![e] =
                    Append(@, Sys("pwritev", WriteOffset(e), iov[e].iovecs, n))]
             /\ Continue(e, "write_push", ops)
             /\ UNCHANGED iov
    /\ UNCHANGED <<fd, logical_block_size, disk, rounding, call, polled, returned, pre>>

\* Lines 216-232 and 242-253: libc::pwritev and the test of its result.
WriteVectoredPwritev(e) ==
    /\ pc[e] = "write_pwritev"
    /\ \/ /\ result' = [result EXCEPT ![e] = -1]
          /\ log' = [log EXCEPT ![e] =
                 Append(@, Sys("pwritev", WriteOffset(e), iov[e].iovecs, -1))]
          /\ Fail(e, "WriteVectored", ops)
          /\ UNCHANGED file
       \/ \E n \in PwritevCounts(total_length(iov[e].iovecs)) :
             /\ file' = [file EXCEPT ![fd[e]] =
                            Pwritev(@, iov[e].iovecs, WriteOffset(e), n)]
             /\ result' = [result EXCEPT ![e] = n]
             /\ log' = [log EXCEPT ![e] =
                    Append(@, Sys("pwritev", WriteOffset(e), iov[e].iovecs, n))]
             /\ Continue(e, "write_push", ops)
             /\ UNCHANGED iov
    /\ UNCHANGED <<fd, logical_block_size, disk, rounding, call, polled, returned, pre>>

\* The result a write reports: lines 236 and 255.
WritePad(e) == Len(iov[e].header1) + Len(iov[e].footer2)
write_result_requested(e) == AsI32(total_length(call[e].iovecs))
write_result(e) ==
    IF Aligned(e) THEN trimmed_result(result[e], WritePad(e))
    ELSE AsI32(result[e])

\* Lines 234-237 and 255: the completion is queued.
WriteVectoredPush(e) ==
    /\ pc[e] = "write_push"
    /\ \/ Aligned(e) /\ Underflows(result[e], WritePad(e)) /\ Panic(e)
       \/ Push(e, write_result(e), "write_signal")
    /\ UNCHANGED <<file, fd, logical_block_size, disk, rounding, call, iov, result, log,
                   polled, returned, pre>>

\* Lines 238-240 and 256-258: the eventfd is written and the call returns.
WriteVectoredSignal(e) ==
    /\ pc[e] = "write_signal"
    /\ Signal(e)
    /\ UNCHANGED <<file, fd, logical_block_size, disk, rounding, call, result, log, polled,
                   returned, pre>>

\* ---------------------------------------------------------------- fsync
\* Lines 261-268 and 273: libc::fsync, the test of its result, and the
\* return of a flush that has no tag.
Fsync(e, user_data) ==
    /\ Begin(e, "fsync", 0, <<>>, user_data)
    /\ \/ /\ result' = [result EXCEPT ![e] = -1]
          /\ log' = [log EXCEPT ![e] = <<Sys("fsync", 0, <<>>, -1)>>]
          /\ Fail(e, "Fsync", Started(e, user_data))
       \/ /\ result' = [result EXCEPT ![e] = 0]
          /\ log' = [log EXCEPT ![e] = <<Sys("fsync", 0, <<>>, 0)>>]
          /\ iov' = [iov EXCEPT ![e] = NoIov]
          /\ IF IsSome(user_data)
             THEN Continue(e, "fsync_push", Started(e, user_data))
             ELSE /\ Goto(e, "idle")
                  /\ ops' = MarkOp(Started(e, user_data), e, "untagged", None)
                  /\ ret' = [ret EXCEPT ![e] = "Ok"]
                  /\ UNCHANGED <<completion_list, eventfd>>
    /\ UNCHANGED <<file, fd, logical_block_size, disk, rounding, polled, returned>>

\* FsyncPush, with the push left out.
FsyncPush_skipped(e) ==
    /\ pc[e] = "fsync_push"
    /\ Goto(e, "fsync_signal")
    /\ UNCHANGED <<file, fd, logical_block_size, disk, rounding, call, iov, result, log,
                   polled, returned, pre, completion_list, eventfd, ret, ops>>

\* Line 269: the completion is queued.
FsyncPush(e) ==
    /\ pc[e] = "fsync_push"
    /\ Push(e, result[e], "fsync_signal")
    /\ UNCHANGED <<file, fd, logical_block_size, disk, rounding, call, iov, result, log,
                   polled, returned, pre>>

\* Lines 270-273: the eventfd is written and the call returns.
FsyncSignal(e) ==
    /\ pc[e] = "fsync_signal"
    /\ Signal(e)
    /\ UNCHANGED <<file, fd, logical_block_size, disk, rounding, call, result, log, polled,
                   returned, pre>>

\* ---------------------------------------------- next_completed_request
\* self.completion_list.pop_front()
pop_back(q) == IF q = <<>> THEN [item |-> None, rest |-> q]
               ELSE [item |-> Some(q[Len(q)]), rest |-> SubSeq(q, 1, Len(q) - 1)]
pop_front(q) == IF q = <<>> THEN [item |-> None, rest |-> q]
                ELSE [item |-> Some(Head(q)), rest |-> Tail(q)]

\* next_completed_request, reading the notifier down to zero when it
\* returns the last queued completion.
NextCompletedRequest_resetting(e) ==
    /\ pc[e] = "idle"
    /\ LET p == pop_front(completion_list[e])
       IN  /\ completion_list' = [completion_list EXCEPT ![e] = p.rest]
           /\ polled' = [polled EXCEPT ![e] = p.item]
           /\ returned' = [returned EXCEPT ![e] =
                              IF IsSome(p.item) THEN Append(@, Unwrap(p.item)) ELSE @]
           /\ ret' = [ret EXCEPT ![e] = "Polled"]
           /\ eventfd' = [eventfd EXCEPT ![e] = IF p.rest = <<>> THEN 0 ELSE @]
    /\ UNCHANGED <<file, fd, logical_block_size, disk, rounding, pc,
                   call, iov, result, log, ops, pre>>

NextCompletedRequest(e) ==
    /\ pc[e] = "idle"
    /\ LET p == pop_front(completion_list[e])
       IN  /\ completion_list' = [completion_list EXCEPT ![e] = p.rest]
           /\ polled' = [polled EXCEPT ![e] = p.item]
           /\ returned' = [returned EXCEPT ![e] =
                              IF IsSome(p.item) THEN Append(@, Unwrap(p.item)) ELSE @]
           /\ ret' = [ret EXCEPT ![e] = "Polled"]
    /\ UNCHANGED <<file, fd, logical_block_size, disk, rounding, eventfd, pc,
                   call, iov, result, log, ops, pre>>

\* ------------------------------------------------- round_down, round_up
\* The offsets and alignments the two functions are applied to.
RoundOffsets == (0..MaxRound) \cup ((UsizeMax - MaxRound)..UsizeMax)
RoundAlignments == 1..MaxAlign

\* Self::round_down(offset, alignment) and Self::round_up(offset,
\* alignment): `up` is None when round_up panicked.
Round(offset, alignment) ==
    /\ \/ /\ round_up_overflows(offset, alignment)
          /\ rounding' = Some([offset |-> offset, alignment |-> alignment,
                               down |-> round_down(offset, alignment),
                               up |-> None])
       \/ rounding' = Some([offset |-> offset, alignment |-> alignment,
                            down |-> round_down(offset, alignment),
                            up |-> Some(round_up(offset, alignment))])
    /\ UNCHANGED <<disk, file, fd, logical_block_size, eventfd, completion_list,
                   pc, call, iov, result, ret, log, polled, ops, returned, pre>>

\* ------------------------------------------------------------- topology
\* crate::DiskTopology: the geometry of the disk.
TopologySizes == {512, 4096}
DiskTopology ==
    [logical_block_size : TopologySizes, physical_block_size : TopologySizes,
     minimum_io_size : TopologySizes, optimal_io_size : TopologySizes]

\* DiskTopology::default(): the hard-coded topology.
DiskTopologyDefault ==
    [logical_block_size |-> 512, physical_block_size |-> 512,
     minimum_io_size |-> 512, optimal_io_size |-> 512]

\* Result<DiskTopology, _>: what DiskTopology::probe(&self.file) returns.
Ok(t) == <<"Ok", t>>
Err == <<"Err">>
IsOk(r) == r[1] = "Ok"
ProbeResults == {Err} \cup {Ok(t) : t \in DiskTopology}

\* topology(), with the configured size used only when the probe failed.
topology_probed_first(probe, logical_block_size_) ==
    IF IsOk(probe) THEN probe[2]
    ELSE IF IsSome(logical_block_size_)
         THEN [DiskTopologyDefault EXCEPT
                  !.logical_block_size = Unwrap(logical_block_size_)]
         ELSE DiskTopologyDefault

\* RawFileDiskSync::topology, lines 43-58, for the answer `probe` of
\* DiskTopology::probe.
topology(probe, logical_block_size_) ==
    LET topology_ == IF IsOk(probe) THEN probe[2] ELSE DiskTopologyDefault
    IN  IF IsSome(logical_block_size_)
        THEN [topology_ EXCEPT !.logical_block_size = Unwrap(logical_block_size_)]
        ELSE topology_

\* A call of RawFileDiskSync::topology.
Topology ==
    /\ \E probe \in ProbeResults :
          disk' = [disk EXCEPT
                      !.probe = Some(probe),
                      !.topology = Some(topology(probe, disk.logical_block_size))]
    /\ UNCHANGED <<file, fd, logical_block_size, eventfd, completion_list, pc,
                   call, iov, result, ret, log, polled, ops, returned, pre,
                   rounding>>

\* ---------------------------------------------------------------- Next
\* The steps inside a submit call, and the poll for a completion.
Step ==
    \/ \E e \in EngineIds : ReadVectoredPreadv(e)
    \/ \E e \in EngineIds : ReadVectoredPush(e)
    \/ \E e \in EngineIds : ReadVectoredSignal(e)
    \/ \E e \in EngineIds : WriteVectoredHeaderRead(e)
    \/ \E e \in EngineIds : WriteVectoredFooterRead(e)
    \/ \E e \in EngineIds : WriteVectoredPwritev(e)
    \/ \E e \in EngineIds : WriteVectoredPush(e)
    \/ \E e \in EngineIds : WriteVectoredSignal(e)
    \/ \E e \in EngineIds : FsyncPush(e)
    \/ \E e \in EngineIds : FsyncSignal(e)
    \/ \E e \in EngineIds : NextCompletedRequest(e)

\* The tags a flush can carry.
FlushTags == {None} \cup {Some(t) : t \in Tags}

\* One submit, of any offset and shape within the bounds, on any of the
\* initial files.
Next ==
    \/ \E e \in EngineIds, offset \in Offsets, shape \in Shapes, user_data \in Tags :
          Len(ops[e]) < 1 /\ ReadVectoredCall(e, offset, shape, user_data)
    \/ \E e \in EngineIds, offset \in Offsets, shape \in Shapes, user_data \in Tags :
          Len(ops[e]) < 1 /\ WriteVectoredCall(e, offset, shape, user_data)
    \/ \E e \in EngineIds, user_data \in FlushTags :
          Len(ops[e]) < 1 /\ Fsync(e, user_data)
    \/ Step

Spec == Init /\ [][Next]_vars

\* Up to MaxOps submits in a row, polled at any time between them.
NextQueue ==
    \/ \E e \in EngineIds, offset \in QueueOffsets, shape \in QueueShapes,
          user_data \in Tags :
          Len(ops[e]) < MaxOps /\ ReadVectoredCall(e, offset, shape, user_data)
    \/ \E e \in EngineIds, offset \in QueueOffsets, shape \in QueueShapes,
          user_data \in Tags :
          Len(ops[e]) < MaxOps /\ WriteVectoredCall(e, offset, shape, user_data)
    \/ \E e \in EngineIds, user_data \in FlushTags :
          Len(ops[e]) < MaxOps /\ Fsync(e, user_data)
    \/ Step

SpecQueue == InitQueue /\ [][NextQueue]_vars

\* round_down and round_up applied, again and again, to an offset and an
\* alignment.
InitRound == InitEngines({}, {0}, {})

NextRound ==
    \E offset \in RoundOffsets, alignment \in RoundAlignments :
        Round(offset, alignment)

SpecRound == InitRound /\ [][NextRound]_vars

\* The disk before any engine is built, with no logical block size or one
\* that is or is not the probed one, and its topology queried.
InitTopology == InitEngines({}, InitFileLens, TopologySizes \cup {2048})

NextTopology == Topology

SpecTopology == InitTopology /\ [][NextTopology]_vars

\* Two engines built by new_async_io on the same file, one per thread, each
\* making one write of one byte: engine 1 at offset 0, engine 2 at offset 1.
\* The steps of the two calls interleave in every way.
RaceFileLens == {0, 3, 4}
RaceOffset(e) == e - 1
RaceTag(e) == e

InitRace == InitEngines({1, 2}, RaceFileLens, BlockSizes)

NextRace ==
    \/ \E e \in EngineIds :
          Len(ops[e]) < 1 /\ WriteVectoredCall(e, RaceOffset(e), <<1>>, RaceTag(e))
    \/ \E e \in EngineIds : WriteVectoredHeaderRead(e)
    \/ \E e \in EngineIds : WriteVectoredFooterRead(e)
    \/ \E e \in EngineIds : WriteVectoredPwritev(e)
    \/ \E e \in EngineIds : WriteVectoredPush(e)
    \/ \E e \in EngineIds : WriteVectoredSignal(e)

SpecRace == InitRace /\ [][NextRace]_vars

\* Two disks with the same content, a multiple of the block size long;
\* engine 1 is built with the block size on the first, engine 2 with none
\* on the second.  Each read or write, within the file up to its sector
\* boundaries, is submitted to engine 1 and then, engine 1 having returned,
\* with the same arguments to engine 2.
EquivFileLens == {4, 6}
EquivOffsets == {0, 1, 2}
EquivShapes == {<<>>, <<1>>, <<2>>, <<1, 1>>}

InitEquiv ==
    /\ \E n \in EquivFileLens, b \in BlockSizes :
          /\ n % b = 0
          /\ file = [f \in {1, 2} |-> InitFile(n)]
          /\ disk = [logical_block_size |-> Some(b), probe |-> None,
                     topology |-> None]
          /\ logical_block_size =
                [e \in EngineIds |-> IF e = 1 THEN Some(b) ELSE None]
    /\ rounding = None
    /\ fd = [e \in EngineIds |-> e]
    /\ eventfd = [e \in EngineIds |-> 0]
    /\ completion_list = [e \in EngineIds |-> <<>>]
    /\ pc = [e \in EngineIds |-> "idle"]
    /\ call = [e \in EngineIds |-> NoCall]
    /\ iov = [e \in EngineIds |-> NoIov]
    /\ result = [e \in EngineIds |-> 0]
    /\ ret = [e \in EngineIds |-> "none"]
    /\ log = [e \in EngineIds |-> <<>>]
    /\ polled = [e \in EngineIds |-> None]
    /\ ops = [e \in EngineIds |-> <<>>]
    /\ returned = [e \in EngineIds |-> <<>>]
    /\ pre = [e \in EngineIds |-> [file |-> <<>>, completion_list |-> <<>>, eventfd |-> 0]]

\* Engine 1 may be given its next operation, the tag being its number.
EquivFirst == pc[2] = "idle" /\ Len(ops[1]) = Len(ops[2]) /\ Len(ops[1]) < 2
\* Engine 2 may be given the operation engine 1 was given last.
EquivSecond(fn) ==
    /\ pc[1] \in {"idle", "panicked"}
    /\ Len(ops[2]) < Len(ops[1])
    /\ call[1].fn = fn

NextEquiv ==
    \/ \E offset \in EquivOffsets, shape \in EquivShapes :
          EquivFirst /\ ReadVectoredCall(1, offset, shape, Len(ops[1]) + 1)
    \/ \E offset \in EquivOffsets, shape \in EquivShapes :
          EquivFirst /\ WriteVectoredCall(1, offset, shape, Len(ops[1]) + 1)
    \/ /\ EquivSecond("read_vectored")
       /\ ReadVectoredCall(2, call[1].offset, Lens(call[1].iovecs),
                           Unwrap(call[1].user_data))
    \/ /\ EquivSecond("write_vectored")
       /\ WriteVectoredCall(2, call[1].offset, Lens(call[1].iovecs),
                            Unwrap(call[1].user_data))
    \/ \E e \in EngineIds : ReadVectoredPreadv(e)
    \/ \E e \in EngineIds : ReadVectoredPush(e)
    \/ \E e \in EngineIds : ReadVectoredSignal(e)
    \/ \E e \in EngineIds : WriteVectoredHeaderRead(e)
    \/ \E e \in EngineIds : WriteVectoredFooterRead(e)
    \/ \E e \in EngineIds : WriteVectoredPwritev(e)
    \/ \E e \in EngineIds : WriteVectoredPush(e)
    \/ \E e \in EngineIds : WriteVectoredSignal(e)

SpecEquiv == InitEquiv /\ [][NextEquiv]_vars

\* The scenario of one write of 100 bytes at offset 50 on an engine built
\* with a logical block size of 512 (or none), on a file that
\* ends inside the written range, and a file of two whole sectors.
ScenarioBlockSizes == {512}
ScenarioFileLens == {100, 1024}
ScenarioShapes == {<<100>>, <<60, 40>>}

InitScenario == InitEngines({1}, ScenarioFileLens, ScenarioBlockSizes)

NextScenario ==
    \/ \E e \in EngineIds, shape \in ScenarioShapes :
          Len(ops[e]) < 1 /\ WriteVectoredCall(e, 50, shape, 1)
    \/ \E e \in EngineIds : WriteVectoredHeaderRead(e)
    \/ \E e \in EngineIds : WriteVectoredFooterRead(e)
    \/ \E e \in EngineIds : WriteVectoredPwritev(e)
    \/ \E e \in EngineIds : WriteVectoredPush(e)
    \/ \E e \in EngineIds : WriteVectoredSignal(e)
    \/ \E e \in EngineIds : NextCompletedRequest(e)

SpecScenario == InitScenario /\ [][NextScenario]_vars

\* ======================================================== the claims
\* The errors a submit call returns.
Errors == {"ReadVectored", "WriteVectored", "Fsync", "AllocError"}

\* The last element of a non-empty sequence.
Last(q) == q[Len(q)]

\* The entries the submits of history o have queued, in the order the
\* submits were made.
RECURSIVE CompletedEntries(_)
CompletedEntries(o) ==
    IF o = <<>> THEN <<>>
    ELSE (IF IsSome(Head(o).entry) THEN <<Unwrap(Head(o).entry)>> ELSE <<>>)
            \o CompletedEntries(Tail(o))

\* The number of entries pushed to the queue so far: those returned and
\* those still in it.
Pushed(e) == Len(returned[e]) + Len(completion_list[e])

\* The call is between its queue push and its eventfd write.
InSignal(e) == pc[e] \in {"read_signal", "write_signal", "fsync_signal"}

\* No submit call is in progress.
NoSubmit(e) == pc[e] \in {"idle", "panicked", "absent"}

\* ---------------------------------------------------------------- C1
C1_FifoState ==
    \A e \in EngineIds :
        returned[e] \o completion_list[e] = CompletedEntries(ops[e])

C1_PollStep(e) ==
    NextCompletedRequest(e) =>
        LET done == CompletedEntries(ops[e])
        IN  IF Len(returned[e]) = Len(done)
            THEN polled'[e] = None
            ELSE polled'[e] = Some(done[Len(returned[e]) + 1])

\* C1: the completions next_completed_request returns, followed by those
\* still queued, are the completions of the submits in the order the
\* submits were made, each once, whatever the operations were; and a call
\* of next_completed_request returns None exactly when every completion
\* has been returned, and the oldest unreturned completion otherwise.
C1_Fifo == [](C1_FifoState) /\ [][\A e \in EngineIds : C1_PollStep(e)]_vars

\* Three submits have completed; two completions, not the same, have been
\* returned and the third is queued.
C1_Witness ==
    /\ Len(returned[1]) = 2
    /\ Len(completion_list[1]) = 1
    /\ returned[1][1] # returned[1][2]
    /\ polled[1] = Some(returned[1][2])
    /\ Len(ops[1]) = 3

\* ---------------------------------------------------------------- C2
\* C2: in every state the eventfd has been incremented once for every
\* entry pushed, except between the push and the eventfd write of a
\* completion, where the push is one ahead: the increments never exceed
\* the pushes, and the two are equal whenever no submit is in progress.
C2_PushThenSignal ==
    \A e \in EngineIds :
        /\ eventfd[e] <= Pushed(e)
        /\ Pushed(e) - eventfd[e] = (IF InSignal(e) THEN 1 ELSE 0)
        /\ NoSubmit(e) => eventfd[e] = Pushed(e)

\* A second completion has been pushed and not yet signalled.
C2_Witness ==
    /\ InSignal(1)
    /\ Pushed(1) = 2
    /\ eventfd[1] = 1

\* ---------------------------------------------------------------- C3
\* C3: when a submit call has just returned an error, the completion
\* queue and the eventfd count are what they were when the call began,
\* and the operation has no completion.
C3_ErrorQueuesNothing ==
    \A e \in EngineIds :
        ret[e] \in Errors =>
            /\ completion_list[e] = pre[e].completion_list
            /\ eventfd[e] = pre[e].eventfd
            /\ Last(ops[e]).entry = None

\* The write of an aligned write_vectored has failed, after both boundary
\* reads, with a completion of an earlier submit in the queue.
C3_Witness ==
    /\ ret[1] = "WriteVectored"
    /\ Aligned(1)
    /\ Len(log[1]) = 3
    /\ completion_list[1] # <<>>

\* ------------------------------------------- the arguments of a call
\* The total length of the caller's descriptors, and the end of the extent.
TotalLen(e) == total_length(call[e].iovecs)
End(e) == call[e].offset + TotalLen(e)
\* The distance from the sector boundary below the offset to the offset,
\* and from the end to the sector boundary above it.
HeadLen(e) == call[e].offset % L(e)
TailLen(e) == (L(e) - (End(e) % L(e))) % L(e)
AlignedStart(e) == call[e].offset - HeadLen(e)
AlignedEnd(e) == End(e) + TailLen(e)

\* The submit call `fn` of engine e has just returned Ok.
ReturnedOk(e, fn) == pc[e] = "idle" /\ ret[e] = "Ok" /\ call[e].fn = fn

\* The byte at offset p of file f is the byte at offset p of file g.
SameByte(f, g, p) == p < Len(f) /\ p < Len(g) /\ f[p + 1] = g[p + 1]

\* ---------------------------------------------------------------- C4
\* After an aligned write has returned Ok, the bytes of the two boundary
\* regions that the file held before the write are unchanged.
C4_BoundaryKept(e) ==
    \A p \in (AlignedStart(e)..(call[e].offset - 1)) \cup (End(e)..(AlignedEnd(e) - 1)) :
        p < Len(pre[e].file) => SameByte(TheFile(e), pre[e].file, p)

\* The file holds the submitted data at [offset, end).
C4_DataWritten(e) ==
    \A g \in 1..TotalLen(e) :
        /\ call[e].offset + g <= Len(TheFile(e))
        /\ TheFile(e)[call[e].offset + g] = Flatten(call[e].iovecs)[g]

\* The pwritev of the call transferred every byte it was given.
FullWrite(e) ==
    /\ log[e] # <<>>
    /\ Last(log[e]).sys = "pwritev"
    /\ Last(log[e]).r = AlignedEnd(e) - AlignedStart(e)

\* C4 as stated: after every aligned write that completes, the boundary
\* regions hold their pre-write contents and [offset, end) holds the data.
C4_AsStated ==
    \A e \in EngineIds :
        ReturnedOk(e, "write_vectored") /\ Aligned(e) =>
            C4_BoundaryKept(e) /\ C4_DataWritten(e)

\* C4, amended: after every aligned write that completes, the bytes of
\* [roundDown(offset,L), offset) and [end, roundUp(end,L)) that the file
\* held before the write are unchanged; and when the OS write transferred
\* the whole padded extent, [offset, end) holds the submitted data.
C4_PreservesBoundaries ==
    \A e \in EngineIds :
        ReturnedOk(e, "write_vectored") /\ Aligned(e) =>
            /\ C4_BoundaryKept(e)
            /\ FullWrite(e) => C4_DataWritten(e)

\* An aligned write with bytes to preserve on both sides, all of them in
\* the file before the write, has completed in full.
C4_Witness ==
    /\ ReturnedOk(1, "write_vectored") /\ Aligned(1)
    /\ HeadLen(1) > 0 /\ TailLen(1) > 0 /\ TotalLen(1) > 0
    /\ Len(pre[1].file) >= AlignedEnd(1)
    /\ FullWrite(1)
    /\ TheFile(1) # pre[1].file

\* ---------------------------------------------------------------- C5
\* The two boundary reads of an aligned write come first in its OS calls,
\* at the sector boundaries below the offset and below the end, and a
\* write is issued only after both have succeeded.
C5_ReadsBeforeWrite(e) ==
    /\ Len(log[e]) <= 3
    /\ \A i \in DOMAIN log[e] :
          /\ i = 1 => log[e][i] = [sys |-> "preadv", offset |-> AlignedStart(e),
                                   lens |-> <<HeadLen(e), round_up(call[e].offset, L(e))
                                                              - call[e].offset>>,
                                   r |-> log[e][i].r]
          /\ i = 2 => /\ log[e][i].sys = "preadv"
                      /\ log[e][i].offset = End(e) - (End(e) % L(e))
                      /\ log[e][i].lens = <<End(e) % L(e), TailLen(e)>>
          /\ i = 3 => log[e][i].sys = "pwritev"
          /\ i > 1 => log[e][i - 1].r >= 0

\* A boundary read of the call has failed and the call has returned `err`,
\* leaving file, queue and eventfd as they were.
C5_Aborted(e, err) ==
    (log[e] # <<>> /\ Last(log[e]).sys = "preadv" /\ Last(log[e]).r < 0
        /\ ret[e] # "Polled") =>
        /\ pc[e] = "idle"
        /\ ret[e] = err
        /\ TheFile(e) = pre[e].file
        /\ completion_list[e] = pre[e].completion_list
        /\ eventfd[e] = pre[e].eventfd

\* C5 as stated: a failed boundary read aborts the write with the error
\* of the write kind.
C5_AsStated ==
    \A e \in EngineIds :
        call[e].fn = "write_vectored" /\ Aligned(e) =>
            C5_ReadsBeforeWrite(e) /\ C5_Aborted(e, "WriteVectored")

\* C5, amended: in an aligned write both boundary regions are read before
\* the write is issued, and if either read fails the call returns the
\* error of the read kind (ReadVectored), no write is issued, and nothing
\* is queued or signalled.
C5_BoundaryReadFailure ==
    \A e \in EngineIds :
        call[e].fn = "write_vectored" /\ Aligned(e) =>
            C5_ReadsBeforeWrite(e) /\ C5_Aborted(e, "ReadVectored")

\* The second boundary read has failed after the first succeeded.
C5_Witness ==
    /\ call[1].fn = "write_vectored" /\ Aligned(1)
    /\ Len(log[1]) = 2 /\ log[1][1].r >= 0 /\ log[1][2].r < 0
    /\ ret[1] = "ReadVectored"
    /\ HeadLen(1) > 0

\* ---------------------------------------------------------------- C6
\* C6: when fsync has just returned: it issued one flush; if the flush
\* failed the call returned the Fsync error and queue and eventfd are as
\* before; if it succeeded with no tag the call returned Ok and queue and
\* eventfd are as before; if it succeeded with a tag the queue has gained
\* exactly the entry (tag, return code of the flush) and the eventfd 1.
C6_Flush ==
    \A e \in EngineIds :
        (call[e].fn = "fsync" /\ pc[e] = "idle" /\ ret[e] # "Polled") =>
            /\ Len(log[e]) = 1 /\ log[e][1].sys = "fsync"
            /\ IF log[e][1].r < 0
               THEN /\ ret[e] = "Fsync"
                    /\ completion_list[e] = pre[e].completion_list
                    /\ eventfd[e] = pre[e].eventfd
               ELSE /\ ret[e] = "Ok"
                    /\ IF call[e].user_data = None
                       THEN /\ completion_list[e] = pre[e].completion_list
                            /\ eventfd[e] = pre[e].eventfd
                       ELSE /\ completion_list[e] =
                                  pre[e].completion_list
                                     \o <<<<Unwrap(call[e].user_data), log[e][1].r>>>>
                            /\ eventfd[e] = pre[e].eventfd + 1

\* A tagged flush has completed behind an earlier completion.
C6_Witness ==
    /\ ReturnedOk(1, "fsync")
    /\ IsSome(call[1].user_data)
    /\ pre[1].completion_list # <<>>
    /\ Len(completion_list[1]) = Len(pre[1].completion_list) + 1

\* ---------------------------------------------------------------- C7
\* When a submit that queues a completion has just returned Ok, the queue
\* is the queue from before the call with the completion at its end, and
\* the eventfd has been written.
C7_Queued(e) ==
    (pc[e] = "idle" /\ ret[e] = "Ok" /\ IsSome(call[e].user_data)) =>
        /\ IsSome(Last(ops[e]).entry)
        /\ Unwrap(Last(ops[e]).entry)[1] = Unwrap(call[e].user_data)
        /\ completion_list[e] =
              pre[e].completion_list \o <<Unwrap(Last(ops[e]).entry)>>
        /\ eventfd[e] = pre[e].eventfd + 1

\* With the queue drained before the submit, the poll that follows the
\* submit's return returns the submit's completion.
C7_NextPoll(e) ==
    (NextCompletedRequest(e) /\ ret[e] = "Ok" /\ IsSome(call[e].user_data)
        /\ pre[e].completion_list = <<>>) =>
        polled'[e] = Last(ops[e]).entry

\* The queue grows only in the push step of a submit call, by one entry.
C7_OnlySubmitPushes(e) ==
    Len(completion_list'[e]) > Len(completion_list[e]) =>
        /\ pc[e] \in {"read_push", "write_push", "fsync_push"}
        /\ Len(completion_list'[e]) = Len(completion_list[e]) + 1

\* C7: a completion is queued as the newest entry and signalled before its
\* submit returns, the next poll on a drained queue returns it, and nothing
\* is queued outside a submit call.
C7_ImmediatelyAvailable ==
    /\ [](\A e \in EngineIds : C7_Queued(e))
    /\ [][\A e \in EngineIds : C7_NextPoll(e) /\ C7_OnlySubmitPushes(e)]_vars

\* A read has returned Ok on a queue that an earlier poll had drained.
C7_Witness ==
    /\ ReturnedOk(1, "read_vectored")
    /\ pre[1].completion_list = <<>>
    /\ Len(returned[1]) = 1
    /\ Len(completion_list[1]) = 1

\* ---------------------------------------------------------------- C8
\* The OS call of an unaligned read or write.
C8_Sys(e) == IF call[e].fn = "read_vectored" THEN "preadv" ELSE "pwritev"

\* C8: a read or write with no logical block size issues one OS call, at
\* the caller's offset over the caller's descriptors; if it fails nothing
\* is pushed, and otherwise the completion is the caller's tag with the
\* return value of that OS call.
C8_Unaligned ==
    \A e \in EngineIds :
        (call[e].fn \in {"read_vectored", "write_vectored"} /\ ~Aligned(e)) =>
            /\ Len(log[e]) <= 1
            /\ pc[e] \notin {"read_preadv", "write_pwritev"} => Len(log[e]) = 1
            /\ \A i \in DOMAIN log[e] :
                  /\ log[e][i].sys = C8_Sys(e)
                  /\ log[e][i].offset = call[e].offset
                  /\ log[e][i].lens = Lens(call[e].iovecs)
            /\ IsSome(Last(ops[e]).entry) <=>
                  (log[e] # <<>> /\ log[e][1].r >= 0
                      /\ pc[e] \notin {"read_push", "write_push"})
            /\ IsSome(Last(ops[e]).entry) =>
                  Unwrap(Last(ops[e]).entry) =
                      <<Unwrap(call[e].user_data), log[e][1].r>>
            /\ (pc[e] = "idle" /\ ret[e] = "Ok") =>
                  completion_list[e] = pre[e].completion_list
                      \o <<<<Unwrap(call[e].user_data), log[e][1].r>>>>

\* An unaligned write over two descriptors, of which the OS wrote a part,
\* has completed.
C8_Witness ==
    /\ ReturnedOk(1, "write_vectored") /\ ~Aligned(1)
    /\ Len(call[1].iovecs) = 2
    /\ log[1][1].r < TotalLen(1)
    /\ completion_list[1] = <<<<Unwrap(call[1].user_data), log[1][1].r>>>>

\* ---------------------------------------------------------------- C9
\* The number of bytes of a read of r bytes that belong to the caller.
Delivered(e, r) == Max(0, Min(TotalLen(e), r - HeadLen(e)))

\* C9: an aligned read whose offset or end is off a sector boundary issues
\* one read, at roundDown(offset,L) over [head, caller descriptors, tail],
\* and each byte of the caller's buffers is, in order, the file byte at
\* offset + its position, or untouched: no byte before offset or from end
\* on reaches the caller.
C9_NoPaddingLeak ==
    \A e \in EngineIds :
        (call[e].fn = "read_vectored" /\ Aligned(e)
            /\ (HeadLen(e) > 0 \/ TailLen(e) > 0) /\ log[e] # <<>>) =>
            /\ Len(log[e]) = 1
            /\ log[e][1].sys = "preadv"
            /\ log[e][1].offset = AlignedStart(e)
            /\ log[e][1].lens = <<HeadLen(e)>> \o Lens(call[e].iovecs) \o <<TailLen(e)>>
            /\ log[e][1].r >= 0 =>
                  \A g \in 1..TotalLen(e) :
                      Flatten(call[e].iovecs)[g] =
                          IF g <= Delivered(e, log[e][1].r)
                          THEN pre[e].file[call[e].offset + g]
                          ELSE Unwritten

\* An aligned read over two descriptors, with bytes before the offset and
\* after the end in its sectors, has read them all.
C9_Witness ==
    /\ ReturnedOk(1, "read_vectored") /\ Aligned(1)
    /\ HeadLen(1) > 0 /\ TailLen(1) > 0
    /\ Len(call[1].iovecs) = 2
    /\ log[1][1].r = AlignedEnd(1) - AlignedStart(1)

\* --------------------------------------------------------------- C10
\* C10: the completion of an aligned read is the caller's tag with the
\* return value of the read minus the lengths of the head and tail
\* buffers; and with offset and end on sector boundaries both buffers are
\* empty and the result is the return value itself.
C10_TrimmedResult ==
    \A e \in EngineIds :
        (call[e].fn = "read_vectored" /\ Aligned(e)) =>
            /\ pc[e] \in {"read_preadv", "read_push", "read_signal"} =>
                  /\ Len(iov[e].header) = HeadLen(e)
                  /\ Len(iov[e].footer) = TailLen(e)
            /\ IsSome(Last(ops[e]).entry) =>
                  /\ Unwrap(Last(ops[e]).entry) =
                        <<Unwrap(call[e].user_data),
                          log[e][1].r - HeadLen(e) - TailLen(e)>>
                  /\ (call[e].offset % L(e) = 0 /\ End(e) % L(e) = 0) =>
                        Unwrap(Last(ops[e]).entry)[2] = log[e][1].r
            /\ (pc[e] = "idle" /\ ret[e] = "Ok") =>
                  /\ completion_list[e] # <<>>
                  /\ Last(completion_list[e]) = Unwrap(Last(ops[e]).entry)

\* An aligned read with a head and a tail has completed with the length
\* the caller asked for.
C10_Witness ==
    /\ ReturnedOk(1, "read_vectored") /\ Aligned(1)
    /\ HeadLen(1) > 0 /\ TailLen(1) > 0 /\ TotalLen(1) > 0
    /\ completion_list[1] = <<<<Unwrap(call[1].user_data), TotalLen(1)>>>>

\* --------------------------------------------------------------- C11
\* The call of engine e is the write of 100 bytes at offset 50 with a
\* logical block size of 512.
C11_Scenario(e) ==
    /\ call[e].fn = "write_vectored"
    /\ Aligned(e) /\ L(e) = 512
    /\ call[e].offset = 50 /\ TotalLen(e) = 100

\* The write of the call has been issued and its buffers are still held.
C11_WriteIssued(e) == pc[e] \in {"write_push", "write_signal"}

\* The OS calls of the call are two reads and then one write, the write
\* at offset 0 over 50 + 100 + 362 = 512 bytes.
C11_TwoReadsOneWrite(e) ==
    /\ Len(log[e]) = 3
    /\ log[e][1].sys = "preadv" /\ log[e][2].sys = "preadv"
    /\ log[e][3].sys = "pwritev"
    /\ log[e][3].offset = 0
    /\ log[e][3].lens = <<50>> \o Lens(call[e].iovecs) \o <<362>>

\* The byte the write was given for offset p of the file.
C11_WriteByte(e, p) == Flatten(iov[e].iovecs)[p + 1]

\* The write was given the submitted data for [50, 150).
C11_Data(e) ==
    \A p \in 50..149 : C11_WriteByte(e, p) = Flatten(call[e].iovecs)[p - 50 + 1]

\* The write was given, for every offset of [0, 50) and [150, 512), the
\* byte the file holds there.
C11_FromDisk(e) ==
    \A p \in (0..49) \cup (150..511) :
        p < Len(pre[e].file) /\ C11_WriteByte(e, p) = pre[e].file[p + 1]

\* The write was given, for every offset of [0, 50) and [150, 512), the
\* byte the file holds there, and beyond the end of the file what the
\* boundary buffer held when it was allocated.
C11_FromRead(e) ==
    \A p \in (0..49) \cup (150..511) :
        IF p < Len(pre[e].file)
        THEN C11_WriteByte(e, p) = pre[e].file[p + 1]
        ELSE C11_WriteByte(e, p) \in AllocFill

\* C11 as stated, for a file that holds the whole sector: the write that
\* completes issued two reads and then one write over [0, 512), of the
\* bytes read from disk around the submitted data, and its completion
\* result is 100.
C11_AsStated ==
    \A e \in EngineIds :
        (C11_Scenario(e) /\ Len(pre[e].file) >= 512) =>
            /\ C11_WriteIssued(e) =>
                  C11_TwoReadsOneWrite(e) /\ C11_Data(e) /\ C11_FromDisk(e)
            /\ ReturnedOk(e, "write_vectored") =>
                  /\ C11_TwoReadsOneWrite(e)
                  /\ Last(completion_list[e]) = <<Unwrap(call[e].user_data), 100>>

\* C11, amended: with logical block size 512, a write of 100 bytes at
\* offset 50 that reaches its OS write has issued two reads and then that
\* one write, over exactly [0, 512); the write is given the submitted data
\* for [50, 150) and, for [0, 50) and [150, 512), the bytes the reads
\* delivered: the file's bytes where the file holds them, the content the
\* boundary buffers were allocated with beyond its end; and when the call
\* returns Ok its completion result is the write's return value minus
\* 412, which is 100 when the OS wrote all 512 bytes.
C11_Scenario512 ==
    \A e \in EngineIds :
        C11_Scenario(e) =>
            /\ C11_WriteIssued(e) =>
                  C11_TwoReadsOneWrite(e) /\ C11_Data(e) /\ C11_FromRead(e)
            /\ ReturnedOk(e, "write_vectored") =>
                  /\ C11_TwoReadsOneWrite(e)
                  /\ Last(completion_list[e]) =
                        <<Unwrap(call[e].user_data), log[e][3].r - 412>>
                  /\ log[e][3].r = 512 =>
                        Last(completion_list[e]) = <<Unwrap(call[e].user_data), 100>>

\* The write, over two descriptors on a file of two sectors, has completed
\* in full with result 100, and the file has kept its length.
C11_Witness ==
    /\ C11_Scenario(1) /\ ReturnedOk(1, "write_vectored")
    /\ Len(call[1].iovecs) = 2
    /\ Len(pre[1].file) = 1024 /\ Len(TheFile(1)) = 1024
    /\ log[1][3].r = 512
    /\ completion_list[1] = <<<<1, 100>>>>
    /\ TheFile(1)[50] = pre[1].file[50] /\ TheFile(1)[51] = 10
    /\ TheFile(1)[150] = 109 /\ TheFile(1)[151] = pre[1].file[151]

\* --------------------------------------------------------------- C12
\* The topology the last query started from: the probed one, or the
\* default when the probe failed.
C12_Base == IF IsOk(Unwrap(disk.probe)) THEN Unwrap(disk.probe)[2]
            ELSE DiskTopologyDefault

\* C12: a topology query always returns a topology: with no logical block
\* size configured, the probed topology when the probe succeeded and the
\* default topology when it failed; with one configured, that topology
\* with logical_block_size set to the configured value and every other
\* field as probed or defaulted.
C12_Topology ==
    IsSome(disk.probe) =>
        /\ IsSome(disk.topology)
        /\ LET t == Unwrap(disk.topology) IN
            /\ DOMAIN t = DOMAIN DiskTopologyDefault
            /\ IF IsSome(disk.logical_block_size)
               THEN /\ t.logical_block_size = Unwrap(disk.logical_block_size)
                    /\ \A k \in DOMAIN t \ {"logical_block_size"} :
                           t[k] = C12_Base[k]
               ELSE t = C12_Base

\* The probe failed on a disk configured with a logical block size that
\* is not the default's.
C12_Witness ==
    /\ disk.probe = Some(Err)
    /\ disk.logical_block_size = Some(4096)
    /\ IsSome(disk.topology)
    /\ Unwrap(disk.topology).logical_block_size = 4096
    /\ Unwrap(disk.topology).physical_block_size = 512

\* --------------------------------------------------------------- C13
\* No step of engine e lowers its eventfd count.
C13_NeverLowered(e) == eventfd'[e] >= eventfd[e]

\* next_completed_request leaves the eventfd count and the file as they
\* are, whether or not it returns a completion.
C13_PollKeeps(e) ==
    NextCompletedRequest(e) => eventfd'[e] = eventfd[e] /\ file' = file

\* The eventfd count changes only in the step after the push of a
\* completion, by one, and then counts the completions queued so far.
C13_OnePerCompletion(e) ==
    eventfd'[e] # eventfd[e] =>
        /\ InSignal(e)
        /\ IsSome(Last(ops[e]).entry)
        /\ eventfd'[e] = eventfd[e] + 1
        /\ eventfd'[e] = Len(CompletedEntries(ops[e]))

\* C13: no step of the engine lowers the eventfd count; a call of
\* next_completed_request changes neither the count nor the file; and the
\* count changes only by one, once for each completion queued.
C13_NotifierNeverReset ==
    [][\A e \in EngineIds :
          C13_NeverLowered(e) /\ C13_PollKeeps(e) /\ C13_OnePerCompletion(e)]_vars

\* The queue has been drained by polls, the last of which found it empty,
\* and the eventfd still counts the two completions.
C13_Witness ==
    /\ completion_list[1] = <<>>
    /\ Len(returned[1]) = 2
    /\ polled[1] = None /\ ret[1] = "Polled"
    /\ eventfd[1] = 2

\* --------------------------------------------------------------- C14
\* The OS calls a submit issues when none of them fails, in order.
C14_Sequence(e) ==
    CASE call[e].fn = "read_vectored" -> <<"preadv">>
      [] call[e].fn = "write_vectored" ->
            IF Aligned(e) THEN <<"preadv", "preadv", "pwritev">>
            ELSE <<"pwritev">>
      [] call[e].fn = "fsync" -> <<"fsync">>
      [] OTHER -> <<>>

\* The OS calls of the current submit are the first calls of its sequence
\* (in an aligned write the read at the sector below the offset, the read
\* at the sector below the end, the write); a failed call is the last one,
\* and the submit has returned an error; a submit that returned Ok issued
\* the whole sequence.
C14_Calls(e) ==
    /\ Len(log[e]) <= Len(C14_Sequence(e))
    /\ \A i \in DOMAIN log[e] :
          /\ log[e][i].sys = C14_Sequence(e)[i]
          /\ log[e][i].r < 0 =>
                /\ i = Len(log[e])
                /\ pc[e] = "idle"
                /\ Last(ops[e]).status = "failed"
                /\ ret[e] \in Errors \cup {"Polled"}
    /\ (call[e].fn = "write_vectored" /\ Aligned(e)) =>
          /\ Len(log[e]) >= 1 => log[e][1].offset = AlignedStart(e)
          /\ Len(log[e]) >= 2 => log[e][2].offset = End(e) - (End(e) % L(e))
          /\ Len(log[e]) >= 3 => log[e][3].offset = AlignedStart(e)
    /\ (pc[e] = "idle" /\ ret[e] = "Ok") =>
          /\ Len(log[e]) = Len(C14_Sequence(e))
          /\ Last(log[e]).r >= 0

\* A step adds at most one OS call to those of the current submit, never
\* after a failed one, and a call that fails ends the submit with an error
\* in the same step.
C14_Step(e) ==
    /\ Len(ops'[e]) = Len(ops[e]) =>
          /\ Len(log'[e]) <= Len(log[e]) + 1
          /\ SubSeq(log'[e], 1, Len(log[e])) = log[e]
          /\ (Len(log'[e]) > Len(log[e]) /\ log[e] # <<>>) =>
                Last(log[e]).r >= 0
    /\ (log'[e] # log[e] /\ Last(log'[e]).r < 0) =>
          pc'[e] = "idle" /\ ret'[e] \in Errors

\* C14: each submit issues the OS calls of its fixed sequence, in order
\* and each at most once; the first one that fails ends the submit with
\* an error, and no OS call follows a failed one.
C14_NoRetry ==
    /\ [](\A e \in EngineIds : C14_Calls(e))
    /\ [][\A e \in EngineIds : C14_Step(e)]_vars

\* The write of an aligned write_vectored has failed after both boundary
\* reads succeeded, and the call has returned the error with the file as
\* it was.
C14_Witness ==
    /\ call[1].fn = "write_vectored" /\ Aligned(1)
    /\ Len(log[1]) = 3
    /\ log[1][1].r >= 0 /\ log[1][2].r >= 0 /\ log[1][3].r < 0
    /\ pc[1] = "idle" /\ ret[1] = "WriteVectored"
    /\ TheFile(1) = pre[1].file

\* --------------------------------------------------------------- C15
\* Both engines have completed an aligned write, each transferred in full
\* by the OS, the two over disjoint byte ranges inside one sector that
\* the file held from the start.
C15_BothWritten ==
    /\ \A e \in EngineIds :
          /\ ReturnedOk(e, "write_vectored") /\ Aligned(e) /\ FullWrite(e)
          /\ Len(pre[e].file) >= AlignedEnd(e)
    /\ End(1) <= call[2].offset
    /\ AlignedStart(1) = AlignedStart(2) /\ AlignedEnd(1) = AlignedEnd(2)

\* C15 as stated: when two engines on the same file have each completed
\* an aligned write, the two over disjoint byte ranges that share a
\* sector, the file holds the data of both writes, however the steps of
\* the two calls were interleaved.
C15_AsStated ==
    C15_BothWritten => \A e \in EngineIds : C4_DataWritten(e)

\* Engine 2's write came between engine 1's reads and engine 1's write:
\* the byte engine 2 wrote is again what the file held before.
C15_Witness ==
    /\ C15_BothWritten
    /\ pre[1].file = pre[2].file
    /\ Len(pre[1].file) > 1
    /\ TheFile(1)[1] = DataByte(RaceTag(1), 0)
    /\ TheFile(1)[2] = pre[1].file[2]
    /\ TheFile(1)[2] # DataByte(RaceTag(2), 0)

\* --------------------------------------------------------------- C16
\* The call of engine e is an aligned read or an aligned write.
C16_AlignedTransfer(e) ==
    call[e].fn \in {"read_vectored", "write_vectored"} /\ Aligned(e)

\* C16 as stated: an aligned read or write whose OS call succeeded, in
\* full or in part, does not fail in the subtraction of the head and tail
\* lengths, and its completion result is between 0 and the total length
\* of the caller's descriptors.
C16_AsStated ==
    \A e \in EngineIds :
        C16_AlignedTransfer(e) =>
            /\ pc[e] # "panicked"
            /\ IsSome(Last(ops[e]).entry) =>
                  /\ Unwrap(Last(ops[e]).entry)[2] >= 0
                  /\ Unwrap(Last(ops[e]).entry)[2] <= TotalLen(e)

\* An aligned read that met the end of the file inside its first sector
\* has returned Ok with a negative result queued.
C16_Witness ==
    /\ ReturnedOk(1, "read_vectored") /\ Aligned(1)
    /\ Len(log[1]) = 1 /\ log[1][1].r >= 0
    /\ log[1][1].r < HeadLen(1) + TailLen(1)
    /\ Last(completion_list[1])[2] < 0

\* --------------------------------------------------------------- C17
\* The sum of the lengths of a descriptor list.
RECURSIVE C17_Sum(_)
C17_Sum(lens) == IF lens = <<>> THEN 0 ELSE Head(lens) + C17_Sum(Tail(lens))

\* C17: every preadv and pwritev an engine with a logical block size L
\* issues (the read of read_vectored; the two boundary reads and the
\* write of write_vectored) is at an offset that is a multiple of L and
\* over descriptors whose lengths add up to a multiple of L.
C17_SectorAligned ==
    \A e \in EngineIds :
        Aligned(e) =>
            \A i \in DOMAIN log[e] :
                log[e][i].sys \in {"preadv", "pwritev"} =>
                    /\ log[e][i].offset % L(e) = 0
                    /\ C17_Sum(log[e][i].lens) % L(e) = 0

\* An aligned write whose offset and end are both inside a sector has
\* issued its two reads and its write, none of them empty.
C17_Witness ==
    /\ call[1].fn = "write_vectored" /\ Aligned(1)
    /\ call[1].offset % L(1) # 0 /\ End(1) % L(1) # 0
    /\ Len(call[1].iovecs) = 2
    /\ Len(log[1]) = 3
    /\ \A i \in 1..3 : C17_Sum(log[1][i].lens) > 0 /\ log[1][i].r >= 0

\* --------------------------------------------------------------- C18
\* Both engines have returned from the same operation.
C18_AfterOperation ==
    /\ pc[1] = "idle" /\ pc[2] = "idle"
    /\ Len(ops[1]) = Len(ops[2]) /\ ops[1] # <<>>

\* Before the operation a caller could observe the same on both sides:
\* the file, the queue and the eventfd.
C18_SameBefore == pre[1] = pre[2]

\* The file is a multiple of engine 1's block size long and holds the
\* sectors of the operation.
C18_WithinFile ==
    /\ Len(pre[1].file) % L(1) = 0
    /\ AlignedEnd(1) <= Len(pre[1].file)

\* Every OS call of the operation, on either side, transferred all it was
\* asked to.
C18_FullTransfers ==
    \A e \in EngineIds : \A i \in DOMAIN log[e] :
        log[e][i].r = C17_Sum(log[e][i].lens)

\* The operation completed on both sides.
C18_Completed == ret[1] = "Ok" /\ ret[2] = "Ok"

\* After the operation a caller can observe the same on both sides: the
\* file, the caller's buffers, the queue and the eventfd.
C18_Same ==
    /\ file[fd[1]] = file[fd[2]]
    /\ call[1].iovecs = call[2].iovecs
    /\ completion_list[1] = completion_list[2]
    /\ eventfd[1] = eventfd[2]

C19_Multiple(x, a) == x % a = 0

\* What the claim says of the results `down` and `up` for offset x and
\* alignment a.
C19_Rounded(x, a, down, up) ==
    /\ C19_Multiple(down, a) /\ C19_Multiple(up, a)
    /\ down <= x /\ x <= up
    /\ x - down < a /\ up - x < a
    /\ (down = x) <=> C19_Multiple(x, a)
    /\ (up = x) <=> C19_Multiple(x, a)

\* C19 as stated: for every offset and every positive alignment round_up
\* returns, and the two results are multiples of the alignment on either
\* side of the offset, less than one alignment away, equal to the offset
\* exactly when the offset is a multiple.
C19_AsStated ==
    IsSome(rounding) =>
        LET r == Unwrap(rounding) IN
        /\ IsSome(r.up)
        /\ C19_Rounded(r.offset, r.alignment, r.down, Unwrap(r.up))

\* C19, amended: for every offset x >= 0 and every positive alignment L
\* (power of two or not) with x + L - 1 <= usize::MAX, round_up returns,
\* and round_down(x,L) and round_up(x,L) are multiples of L with
\* round_down(x,L) <= x <= round_up(x,L), x - round_down(x,L) < L and
\* round_up(x,L) - x < L, both equal to x exactly when x is a multiple of
\* L; and for every x, whatever round_up does, round_down(x,L) is that
\* multiple of L.
C19_Rounding ==
    IsSome(rounding) =>
        LET r == Unwrap(rounding) IN
        /\ C19_Multiple(r.down, r.alignment)
        /\ r.down <= r.offset /\ r.offset - r.down < r.alignment
        /\ (r.down = r.offset) <=> C19_Multiple(r.offset, r.alignment)
        /\ r.offset + r.alignment - 1 <= UsizeMax =>
              /\ IsSome(r.up)
              /\ C19_Rounded(r.offset, r.alignment, r.down, Unwrap(r.up))

\* An offset that is no multiple of an alignment that is no power of two
\* has been rounded down and up to two different multiples.
C19_Witness ==
    /\ IsSome(rounding)
    /\ Unwrap(rounding).alignment = 3
    /\ Unwrap(rounding).offset = 7
    /\ Unwrap(rounding).down = 6
    /\ Unwrap(rounding).up = Some(9)

====
